---- MODULE Spec2Model ----
(***************************************************************************)
(* Model of rich_codex.rich_img.RichImg: the command guard and capturer    *)
(* (pipe_command), the confirmation prompt (confirm_command), the snippet  *)
(* formatter (format_snippetg), the dispatcher (get_output) and the image  *)
(* exporter (save_images).                                                 *)
(*                                                                         *)
(* A Python str is a sequence of one-character strings; None is the        *)
(* distinguished value NoneStr (strings) or NonePath (paths).  A file      *)
(* system is a function from paths to contents.                            *)
(***************************************************************************)
EXTENDS Integers, Sequences, FiniteSets, TLC

\* ------------------------------------------------------------------------
\* Bounds of the model
\* ------------------------------------------------------------------------
MaxTokens == 3
MaxPaths == 3

\* ------------------------------------------------------------------------
\* Python str helpers
\* ------------------------------------------------------------------------
NoneStr == <<"None">>

SP == " "

IsWhitespace(c) == c = SP

RECURSIVE lstrip(_)
lstrip(s) == IF s # <<>> /\ IsWhitespace(Head(s)) THEN lstrip(Tail(s)) ELSE s

RECURSIVE rstrip(_)
rstrip(s) ==
  IF s # <<>> /\ IsWhitespace(s[Len(s)]) THEN rstrip(SubSeq(s, 1, Len(s) - 1)) ELSE s

\* str.strip()
strip(s) == rstrip(lstrip(s))

\* str.startswith(prefix)
startswith(s, prefix) ==
  /\ Len(prefix) <= Len(s)
  /\ SubSeq(s, 1, Len(prefix)) = prefix

\* `needle in s`
contains(s, needle) ==
  \E i \in 1..(Len(s) - Len(needle) + 1) : SubSeq(s, i, i + Len(needle) - 1) = needle

\* str.find(sep): the first index at which sep occurs in s, 0 when it does not
find(s, sep) ==
  LET hits == {i \in 1..(Len(s) - Len(sep) + 1) : SubSeq(s, i, i + Len(sep) - 1) = sep}
  IN IF hits = {} THEN 0 ELSE CHOOSE i \in hits : \A j \in hits : i <= j

\* str.split(sep) for a non-empty separator string: sep is matched as a whole
RECURSIVE split(_, _)
split(s, sep) ==
  LET i == find(s, sep)
  IN IF i = 0
       THEN <<s>>
       ELSE <<SubSeq(s, 1, i - 1)>> \o split(SubSeq(s, i + Len(sep), Len(s)), sep)

Range(f) == {f[i] : i \in DOMAIN f}

RECURSIVE Concat(_)
Concat(ss) == IF ss = <<>> THEN <<>> ELSE Head(ss) \o Concat(Tail(ss))

\* ------------------------------------------------------------------------
\* The command guard
\* ------------------------------------------------------------------------
IGNORE_COMMANDS == << <<"r", "m">>, <<"c", "p">>, <<"m", "v">>, <<"s", "u", "d", "o">> >>

\* the separator string handed to str.split in the guard
GUARD_SEPARATOR == <<"&", ";">>

\* faulty variants of PartIgnored: `==` in place of startswith; `in` in place
\* of it
PartIgnoredExact(cmd_part, ignore) == strip(cmd_part) = ignore

PartIgnoredAnywhere(cmd_part, ignore) == contains(strip(cmd_part), ignore)

\* cmd_part.strip().startswith(ignore)
PartIgnored(cmd_part, ignore) == startswith(strip(cmd_part), ignore)

\* any(cmd_part.strip().startswith(ignore) for cmd_part in self.cmd.split("&;"))
AnyPartIgnored(cmd, ignore) ==
  \E cmd_part \in Range(split(cmd, GUARD_SEPARATOR)) : PartIgnored(cmd_part, ignore)

\* the indices of IGNORE_COMMANDS on which the loop of pipe_command would stop
IgnoreHits(cmd) == {k \in DOMAIN IGNORE_COMMANDS : AnyPartIgnored(cmd, IGNORE_COMMANDS[k])}

\* the guard loop: 0 when it runs to its end, else the index of the first
\* denylisted name for which it returns False
GuardVerdict(cmd) ==
  LET hits == IgnoreHits(cmd)
  IN IF hits = {} THEN 0 ELSE CHOOSE k \in hits : \A j \in hits : k <= j

\* ------------------------------------------------------------------------
\* Paths, file contents and the file system
\* ------------------------------------------------------------------------
Path(dir, stem, ext) == [dir |-> dir, stem |-> stem, ext |-> ext]

NonePath == Path("None", "None", "None")

CWD == "."

TMPDIR == "/tmp"

\* the names mkstemp hands out, in order
TmpNames == <<"tmp1", "tmp2", "tmp3", "tmp4">>

\* str.lower() on the extensions the model uses
lower(ext) ==
  CASE ext = "PNG" -> "png"
    [] ext = "PDF" -> "pdf"
    [] ext = "SVG" -> "svg"
    [] OTHER -> ext

\* filename.lower().endswith("." + ext)
HasExt(filename, ext) == lower(filename.ext) = ext

\* mkstemp(suffix): the n-th temporary file, created empty
mkstemp(n, suffix) == Path(TMPDIR, TmpNames[n], suffix)

EmptyContent == [tier |-> "empty", title |-> <<>>, body |-> <<>>]

\* Console.save_svg(path, title=title): the recorded lines as an SVG document
SvgOf(title, recorded) == [tier |-> "svg", title |-> title, body |-> recorded]

\* cairosvg.svg2png / svg2pdf of an SVG document
Rasterize(svg, tier) == [svg EXCEPT !.tier = tier]

\* the file system is a set of entries, one per path
Entry(p, content) == [path |-> p, content |-> content]

Exists(fsys, p) == \E e \in fsys : e.path = p

ReadFile(fsys, p) == (CHOOSE e \in fsys : e.path = p).content

\* os.unlink / Path.unlink
unlink(fsys, p) == {e \in fsys : e.path # p}

\* writing a file, created or truncated
WriteFile(fsys, p, content) == unlink(fsys, p) \cup {Entry(p, content)}

\* shutil.copyfile(src, dst) when src exists and is not dst
copyfile(fsys, src, dst) == WriteFile(fsys, dst, ReadFile(fsys, src))

\* ------------------------------------------------------------------------
\* State
\* ------------------------------------------------------------------------
VARIABLES
  self,       \* the attributes of the RichImg object
  capture,    \* what capture_console has recorded, in order
  files,      \* the file system: a set of entries
  dirs,       \* the directories that exist
  fds,        \* paths with an OS-level descriptor still open
  ntmp,       \* temporary files created so far
  spawned,    \* child processes spawned so far, in order
  prompts,    \* confirmation prompts issued so far, in order
  logs,       \* log records emitted so far, in order
  cairo,      \* what `from cairosvg import ...` does in this environment
  pc,         \* where the job is in its lifecycle
  idx,        \* save_images: index of the next entry of img_paths
  svg_img,    \* save_images: local svg_img
  png_img,    \* save_images: local png_img
  pdf_img,    \* save_images: local pdf_img
  trace,      \* file operations of the running / last save_images, in order
  ret,        \* the outcome of the last method call
  other,      \* a second object, the right-hand side of ==
  hashed      \* the values of the last hash of self and of other

vars == <<self, capture, files, dirs, fds, ntmp, spawned, prompts, logs, cairo,
          pc, idx, svg_img, png_img, pdf_img, trace, ret, other, hashed>>

\* what no method of the job writes: the environment and the second object
env == <<cairo, other, hashed>>

exportLocals == <<idx, svg_img, png_img, pdf_img, trace>>

osState == <<files, dirs, fds, ntmp>>

\* the outcome of a call: value is "None", "True", "False", "int" (then n is
\* the integer) or "raised" (then exc names the exception)
Returned(call, value) == [call |-> call, value |-> value, n |-> 0, exc |-> "none"]

ReturnedInt(call, n) == [call |-> call, value |-> "int", n |-> n, exc |-> "none"]

Raised(call, exc) == [call |-> call, value |-> "raised", n |-> 0, exc |-> exc]

Log(level, msg) == [level |-> level, msg |-> msg]

\* ------------------------------------------------------------------------
\* Inputs
\* ------------------------------------------------------------------------
Tokens ==
  { <<"r", "m">>, <<"c", "p">>, <<"m", "v">>, <<"s", "u", "d", "o">>, <<"l", "s">>,
    <<SP>>, <<";">>, <<"&">>, <<"|">>, <<"&", ";">> }

\* every command text of at most MaxTokens tokens
Commands == {Concat(ts) : ts \in UNION {[1..n -> Tokens] : n \in 0..MaxTokens}}

\* the few commands the export-centred specification starts from
FewCommands == { <<"l", "s">>, <<"r", "m", SP, "l", "s">> }

Titles == { <<>>, <<"T">> }

PathPool ==
  { Path(CWD, "a", "svg"), Path(CWD, "b", "svg"),
    Path(CWD, "a", "png"), Path(CWD, "b", "png"),
    Path(CWD, "a", "pdf"), Path("out", "c", "PDF") }

PathLists == UNION {[1..n -> PathPool] : n \in 0..MaxPaths}

FewPathLists == { <<Path(CWD, "a", "svg")>> }

Snippets == { "{\"a\": 1}", "{\"a\": ", "print(1)" }

Syntaxes == { "None", "json", "python" }

CairoStates == { "ok", "ImportError", "OSError" }

\* what the child process writes: lines of text, or bytes that do not decode
Undecodable == <<"\\xff">>

Outputs == { <<"hello">>, Undecodable }

\* RichImg.__init__ followed by the caller's configuration of the attributes
NewJob(cmd, snippet, syntax, title, paths, no_confirm) ==
  [ terminal_width |-> "None", terminal_theme |-> "None", title |-> title,
    cmd |-> cmd, snippet |-> snippet, snippet_syntax |-> syntax,
    img_paths |-> paths, no_confirm |-> no_confirm, aborted |-> FALSE ]

\* command mode, snippet mode, or neither: the two modes exclude each other
CommandJobs(cmds, titles, confirms, pathlists) ==
  {NewJob(c, "None", "None", t, p, nc) :
     c \in cmds, t \in titles, p \in pathlists, nc \in confirms}

SnippetJobs(snippets, syntaxes, pathlists) ==
  {NewJob(NoneStr, s, x, <<>>, p, FALSE) :
     s \in snippets \cup {"None"}, x \in syntaxes, p \in pathlists}

\* no second object
NoOther == [kind |-> "None"]

InitWith(jobs, cairos, others) ==
  /\ self \in jobs
  /\ cairo \in cairos
  /\ other \in others
  /\ hashed = <<>>
  /\ capture = <<>>
  /\ files = {}
  /\ dirs = {CWD, TMPDIR}
  /\ fds = {}
  /\ ntmp = 0
  /\ spawned = <<>>
  /\ prompts = <<>>
  /\ logs = <<>>
  /\ pc = "new"
  /\ idx = 0
  /\ svg_img = NonePath
  /\ png_img = NonePath
  /\ pdf_img = NonePath
  /\ trace = <<>>
  /\ ret = Returned("__init__", "None")

\* the export-centred start: few jobs, every list of output paths
Init ==
  InitWith(CommandJobs(FewCommands, {<<>>}, {TRUE}, PathLists)
             \cup SnippetJobs({"{\"a\": 1}"}, {"None"}, PathLists),
           CairoStates, {NoOther})

\* the guard-centred start: every command, one list of output paths
InitGuard ==
  InitWith(CommandJobs(Commands, {<<>>}, BOOLEAN, FewPathLists)
             \cup SnippetJobs(Snippets, Syntaxes, FewPathLists),
           {"ok"}, {NoOther})

\* ------------------------------------------------------------------------
\* confirm_command
\* ------------------------------------------------------------------------
\* the prompt is skipped when there is no command or confirmation is suppressed
ConfirmSkipped(job) == job.cmd = NoneStr \/ job.no_confirm

Prompt(text, answer) == [text |-> text, answer |-> answer]

BoolStr(b) == IF b THEN "True" ELSE "False"

ConfirmCommand ==
  /\ pc = "new"
  /\ pc' = "asked"
  /\ IF ConfirmSkipped(self)
       THEN /\ ret' = Returned("confirm_command", "True")
            /\ UNCHANGED prompts
       ELSE \E answer \in BOOLEAN :
              /\ prompts' = Append(prompts, Prompt(self.cmd, answer))
              /\ ret' = Returned("confirm_command", BoolStr(answer))
  /\ UNCHANGED <<self, capture, osState, spawned, logs, env, exportLocals>>

\* ------------------------------------------------------------------------
\* pipe_command
\* ------------------------------------------------------------------------
\* a line as the capture console records it
Styled(text, style) == [text |-> text, style |-> style]

\* AnsiDecoder.decode: one styled line per line of the output
Decode(out) == [i \in 1..Len(out) |-> Styled(out[i], "ansi")]

Process(cmd, stdout) == [cmd |-> cmd, stdout |-> stdout]

RawOutput(out) == [tier |-> "raw", title |-> <<>>, body |-> out]

\* the guard rejects: the loop over IGNORE_COMMANDS returns False
Rejects(cmd) == GuardVerdict(cmd) # 0

\* faulty variant of RejectedJob: the title default is set before the guard
RejectedJobTitled(job, cmd) ==
  [job EXCEPT !.cmd = cmd, !.aborted = TRUE,
              !.title = IF job.title = <<>> THEN cmd ELSE @]

\* the attributes after a rejection: the command was stripped before the
\* guard ran, and the guard sets aborted
RejectedJob(job, cmd) == [job EXCEPT !.cmd = cmd, !.aborted = TRUE]

\* the body of pipe_command, run on behalf of `call` (get_output discards the
\* value pipe_command returns); out is what the child process writes
pipe_command(call, out) ==
  IF self.cmd = NoneStr
    THEN /\ logs' = Append(logs, Log("debug", "Tried to generate image with no command"))
         /\ ret' = Returned(call, "None")
         /\ UNCHANGED <<self, capture, osState, spawned>>
    ELSE
      LET cmd == strip(self.cmd)
      IN IF Rejects(cmd)
           THEN /\ self' = RejectedJob(self, cmd)
                /\ logs' = Append(logs, Log("warning", IGNORE_COMMANDS[GuardVerdict(cmd)]))
                /\ ret' = Returned(call, IF call = "pipe_command" THEN "False" ELSE "None")
                /\ UNCHANGED <<capture, osState, spawned>>
           ELSE
             LET tmp_file == mkstemp(ntmp + 1, "")
             IN /\ self' = [self EXCEPT !.cmd = cmd,
                                        !.title = IF self.title = <<>> THEN cmd ELSE @]
                /\ logs' = Append(logs, Log("debug", "Running command"))
                \* mkstemp; the descriptor it returns is never closed
                /\ ntmp' = ntmp + 1
                /\ fds' = fds \cup {tmp_file}
                \* Popen + communicate: the shell redirects the output to tmp_file
                /\ spawned' = Append(spawned, Process(cmd, tmp_file))
                /\ files' = WriteFile(files, tmp_file, RawOutput(out))
                /\ UNCHANGED dirs
                \* decode and print; then datetime.now() on the module raises,
                \* before the copy to the log file and the unlink
                /\ IF out = Undecodable
                     THEN /\ capture' = capture
                          /\ ret' = Raised(call, "UnicodeDecodeError")
                     ELSE /\ capture' = capture \o Decode(out)
                          /\ ret' = Raised(call, "AttributeError")

PipeCommand ==
  /\ pc \in {"new", "asked"}
  /\ pc' = "captured"
  /\ \E out \in Outputs : pipe_command("pipe_command", out)
  /\ UNCHANGED <<prompts, env, exportLocals>>

\* ------------------------------------------------------------------------
\* format_snippetg
\* ------------------------------------------------------------------------
\* json.loads accepts the text
IsJson(text) == text = "{\"a\": 1}"

\* Console.print_json: the text parsed and pretty-printed, one line per element
PrettyJson(text) ==
  <<Styled("{", "json"), Styled("  \"a\": 1", "json"), Styled("}", "json")>>

\* Console.print(Syntax(code, lexer)): the code as it is, highlighted by lexer
Highlighted(code, lexer) == <<Styled(code, lexer)>>

format_snippetg ==
  IF self.snippet = "None"
    THEN /\ logs' = Append(logs, Log("debug", "Tried to format snippet with no snippet"))
         /\ UNCHANGED capture
    ELSE IF self.snippet_syntax \in {"json", "None"} /\ IsJson(self.snippet)
      THEN /\ capture' = capture \o PrettyJson(self.snippet)
           /\ logs' = logs \o <<Log("info", "Formatting snippet"),
                                Log("debug", "Formatting snippet as JSON")>>
      \* print_json raised, or the bare `raise` did: fall back to Syntax
      ELSE /\ capture' = capture \o Highlighted(self.snippet, self.snippet_syntax)
           /\ logs' = logs \o <<Log("info", "Formatting snippet"),
                                Log("debug", "Formatting snippet as syntax")>>

FormatSnippet ==
  /\ pc \in {"new", "asked"}
  /\ pc' = "captured"
  /\ format_snippetg
  /\ ret' = Returned("format_snippetg", "None")
  /\ UNCHANGED <<self, osState, spawned, prompts, env, exportLocals>>

\* ------------------------------------------------------------------------
\* get_output
\* ------------------------------------------------------------------------
GetOutput ==
  /\ pc \in {"new", "asked"}
  /\ pc' = "captured"
  /\ IF self.cmd # NoneStr
       THEN \E out \in Outputs : pipe_command("get_output", out)
       ELSE IF self.snippet = "None"
         \* self.format_snippet() : the class has no such method
         THEN /\ ret' = Raised("get_output", "AttributeError")
              /\ UNCHANGED <<self, capture, osState, spawned, logs>>
         ELSE /\ logs' = Append(logs, Log("debug", "Tried to get output with no command or snippet"))
              /\ ret' = Returned("get_output", "None")
              /\ UNCHANGED <<self, capture, osState, spawned>>
  /\ UNCHANGED <<prompts, env, exportLocals>>

\* ------------------------------------------------------------------------
\* save_images
\* ------------------------------------------------------------------------
\* one file operation of the export; ok tells whether its source existed
Ev(op, src, dst, ok) == [op |-> op, src |-> src, dst |-> dst, ok |-> ok]

\* the locals and the surroundings one loop iteration reads and writes
ExportState ==
  [ files |-> files, dirs |-> dirs, fds |-> fds, ntmp |-> ntmp, logs |-> logs,
    svg_img |-> svg_img, png_img |-> png_img, pdf_img |-> pdf_img,
    trace |-> trace, exc |-> "none" ]

NeedsRaster(filename) == HasExt(filename, "png") \/ HasExt(filename, "pdf")

\* "If already made this image": the cached artifact the three `if`s before
\* "Set filenames" copy from, NonePath when none of them applies
CacheFor(x, filename) ==
  IF HasExt(filename, "png") /\ x.png_img # NonePath THEN x.png_img
  ELSE IF HasExt(filename, "pdf") /\ x.pdf_img # NonePath THEN x.pdf_img
  ELSE IF x.svg_img # NonePath THEN x.svg_img
  ELSE NonePath

\* copyfile(src, filename); continue.  copyfile raises SameFileError when both
\* name one file and FileNotFoundError when src is gone
CopyCached(x, src, filename) ==
  IF src = filename
    THEN [x EXCEPT !.exc = "SameFileError",
                   !.trace = Append(@, Ev("copyfile", src, filename, Exists(x.files, src)))]
  ELSE IF ~Exists(x.files, src)
    THEN [x EXCEPT !.exc = "FileNotFoundError",
                   !.trace = Append(@, Ev("copyfile", src, filename, FALSE))]
  ELSE [x EXCEPT !.files = copyfile(@, src, filename),
                 !.trace = Append(@, Ev("copyfile", src, filename, TRUE))]

\* "Set filenames": a .png / .pdf target renders into a fresh temporary file
\* (whose descriptor is dropped unclosed), any other target into itself
SvgFilename(x, filename) ==
  IF NeedsRaster(filename) THEN mkstemp(x.ntmp + 1, "svg") ELSE filename

SetFilenames(x, filename) ==
  IF NeedsRaster(filename)
    THEN LET tmp == SvgFilename(x, filename)
         IN [x EXCEPT !.ntmp = @ + 1,
                      !.files = WriteFile(@, tmp, EmptyContent),
                      !.fds = @ \cup {tmp},
                      !.trace = Append(@, Ev("mkstemp", NonePath, tmp, TRUE))]
    ELSE x

\* faulty variant of GenerateSvg: the name is recorded, save_svg is not called
GenerateSvgNotSaved(x, svg_filename, title, recorded) ==
  IF x.svg_img = NonePath THEN [x EXCEPT !.svg_img = svg_filename] ELSE x

\* "We always generate an SVG first"
GenerateSvg(x, svg_filename, title, recorded) ==
  IF x.svg_img = NonePath
    THEN [x EXCEPT !.files = WriteFile(@, svg_filename, SvgOf(title, recorded)),
                   !.svg_img = svg_filename,
                   !.trace = Append(@, Ev("save_svg", NonePath, svg_filename, TRUE))]
    ELSE x

\* the import failed: log and continue
SkipNoCairo(x, how) ==
  IF how = "ImportError"
    THEN [x EXCEPT !.logs = @ \o <<Log("debug", "ImportError"),
                                   Log("error", "CairoSVG not installed"),
                                   Log("info", "Please install with cairo extra")>>]
    ELSE [x EXCEPT !.logs = @ \o <<Log("debug", "OSError"),
                                   Log("error", "Missing CairoSVG dependencies")>>]

ConvertOp(tier) == IF tier = "png" THEN "svg2png" ELSE "svg2pdf"

\* svg2png / svg2pdf(file_obj=open(svg_filename), write_to=filename), then
\* unlink(svg_filename) and the cache entry of that tier
Convert(x, svg_filename, filename, tier) ==
  IF ~Exists(x.files, svg_filename)
    THEN [x EXCEPT !.exc = "FileNotFoundError",
                   !.trace = Append(@, Ev(ConvertOp(tier), svg_filename, filename, FALSE))]
  ELSE IF ReadFile(x.files, svg_filename).tier # "svg"
    \* cairosvg cannot parse what is no SVG document
    THEN [x EXCEPT !.exc = "ParseError",
                   !.trace = Append(@, Ev(ConvertOp(tier), svg_filename, filename, FALSE))]
    ELSE
      LET converted == WriteFile(x.files, filename,
                                 Rasterize(ReadFile(x.files, svg_filename), tier))
      IN [x EXCEPT !.files = unlink(converted, svg_filename),
                   !.png_img = IF tier = "png" THEN filename ELSE @,
                   !.pdf_img = IF tier = "pdf" THEN filename ELSE @,
                   !.trace = @ \o <<Ev(ConvertOp(tier), svg_filename, filename, TRUE),
                                    Ev("unlink", NonePath, svg_filename, TRUE)>>]

\* faulty variant of Generate: the unlink of svg_filename ends every pass,
\* not only the passes that convert
GenerateUnlinkAlways(x, filename, title, recorded, cairoState) ==
  LET svg_filename == SvgFilename(x, filename)
      x1 == SetFilenames(x, filename)
      x2 == GenerateSvg(x1, svg_filename, title, recorded)
  IN IF NeedsRaster(filename) /\ cairoState # "ok" THEN SkipNoCairo(x2, cairoState)
     ELSE IF HasExt(filename, "png") THEN Convert(x2, svg_filename, filename, "png")
     ELSE IF HasExt(filename, "pdf") THEN Convert(x2, svg_filename, filename, "pdf")
     ELSE [x2 EXCEPT !.files = unlink(@, svg_filename),
                     !.trace = Append(@, Ev("unlink", NonePath, svg_filename, TRUE))]

\* the rest of the loop body, from "Set filenames" on
Generate(x, filename, title, recorded, cairoState) ==
  LET svg_filename == SvgFilename(x, filename)
      x1 == SetFilenames(x, filename)
      x2 == GenerateSvg(x1, svg_filename, title, recorded)
  IN IF NeedsRaster(filename) /\ cairoState # "ok" THEN SkipNoCairo(x2, cairoState)
     ELSE IF HasExt(filename, "png") THEN Convert(x2, svg_filename, filename, "png")
     ELSE IF HasExt(filename, "pdf") THEN Convert(x2, svg_filename, filename, "pdf")
     ELSE x2

\* one iteration of `for filename in self.img_paths`
Iteration(x, filename, title, recorded, cairoState) ==
  LET x0 == [x EXCEPT !.logs = Append(@, Log("debug", "Saving")),
                      !.dirs = @ \cup {filename.dir}]
      src == CacheFor(x0, filename)
  IN IF src # NonePath
       THEN CopyCached(x0, src, filename)
       ELSE Generate(x0, filename, title, recorded, cairoState)

\* faulty variant of SaveAborted: the aborted flag is not looked at
SaveAbortedIgnored(job) == FALSE

\* save_images returns at once: the job was aborted
SaveAborted(job) == job.aborted

\* the call of save_images, up to the loop
SaveImages ==
  /\ pc \in {"new", "asked", "captured"}
  /\ IF SaveAborted(self)
       THEN /\ pc' = "done"
            /\ ret' = Returned("save_images", "None")
            /\ UNCHANGED <<logs, exportLocals>>
       ELSE IF Len(self.img_paths) = 0
         THEN /\ pc' = "done"
              /\ logs' = Append(logs, Log("warning", "Tried to save images with no paths"))
              /\ ret' = Returned("save_images", "None")
              /\ UNCHANGED exportLocals
         ELSE /\ pc' = "saving"
              /\ idx' = 1
              /\ svg_img' = NonePath
              /\ png_img' = NonePath
              /\ pdf_img' = NonePath
              /\ trace' = <<>>
              /\ UNCHANGED <<logs, ret>>
  /\ UNCHANGED <<self, capture, osState, spawned, prompts, env>>

\* one pass through the loop body; an exception ends the call
SaveIteration ==
  /\ pc = "saving"
  /\ idx <= Len(self.img_paths)
  /\ LET x == Iteration(ExportState, self.img_paths[idx], self.title, capture, cairo)
     IN /\ files' = x.files
        /\ dirs' = x.dirs
        /\ fds' = x.fds
        /\ ntmp' = x.ntmp
        /\ logs' = x.logs
        /\ svg_img' = x.svg_img
        /\ png_img' = x.png_img
        /\ pdf_img' = x.pdf_img
        /\ trace' = x.trace
        /\ IF x.exc = "none"
             THEN /\ idx' = idx + 1
                  /\ UNCHANGED <<pc, ret>>
             ELSE /\ pc' = "raised"
                  /\ ret' = Raised("save_images", x.exc)
                  /\ UNCHANGED idx
  /\ UNCHANGED <<self, capture, spawned, prompts, env>>

\* faulty variant of SaveReturn: the files written are counted
SaveReturnWritten ==
  /\ pc = "saving"
  /\ idx > Len(self.img_paths)
  /\ pc' = "done"
  /\ ret' = ReturnedInt("save_images",
                        Cardinality({i \in DOMAIN self.img_paths :
                                       Exists(files, self.img_paths[i])}))
  /\ UNCHANGED <<self, capture, osState, spawned, prompts, logs, env, exportLocals>>

\* faulty variant of SaveReturn: the output paths are consumed by the export
SaveReturnConsumesPaths ==
  /\ pc = "saving"
  /\ idx > Len(self.img_paths)
  /\ pc' = "done"
  /\ ret' = ReturnedInt("save_images", Len(self.img_paths))
  /\ self' = [self EXCEPT !.img_paths = <<>>]
  /\ UNCHANGED <<capture, osState, spawned, prompts, logs, env, exportLocals>>

\* return len(self.img_paths)
SaveReturn ==
  /\ pc = "saving"
  /\ idx > Len(self.img_paths)
  /\ pc' = "done"
  /\ ret' = ReturnedInt("save_images", Len(self.img_paths))
  /\ UNCHANGED <<self, capture, osState, spawned, prompts, logs, env, exportLocals>>

\* ------------------------------------------------------------------------
\* Identity: __eq__, __hash__, _hash_no_fn
\* ------------------------------------------------------------------------
\* faulty variant of RICH_IMG_ATTRS: the output paths are left out
RICH_IMG_ATTRS_NoPaths ==
  << "terminal_width", "terminal_theme", "title", "cmd", "snippet",
     "snippet_syntax" >>

\* the attributes that make up the identity of a job
RICH_IMG_ATTRS ==
  << "terminal_width", "terminal_theme", "title", "cmd", "snippet",
     "snippet_syntax", "img_paths" >>

\* isinstance(other, RichImg)
IsRichImg(o) == "cmd" \in DOMAIN o

\* something that is no RichImg
NotAJob == [kind |-> "str"]

\* __eq__: NotImplemented for a foreign object, else all() over RICH_IMG_ATTRS
eq(a, b) ==
  IF ~IsRichImg(b)
    THEN "NotImplemented"
    ELSE BoolStr(\A i \in DOMAIN RICH_IMG_ATTRS :
                   a[RICH_IMG_ATTRS[i]] = b[RICH_IMG_ATTRS[i]])

\* __hash__: hash(str([getattr(self, attr) for attr in RICH_IMG_ATTRS])); the
\* hash is a function of the list of attribute values, which stands for it
hash(a) == [i \in DOMAIN RICH_IMG_ATTRS |-> a[RICH_IMG_ATTRS[i]]]

\* _hash_no_fn: the same without img_paths
hash_no_fn(a) ==
  LET attrs == SelectSeq(RICH_IMG_ATTRS, LAMBDA attr : attr # "img_paths")
  IN [i \in DOMAIN attrs |-> a[attrs[i]]]

\* self == other
Eq ==
  /\ ret' = Returned("__eq__", eq(self, other))
  /\ UNCHANGED <<self, capture, osState, spawned, prompts, logs, env, pc,
                 exportLocals>>

\* hash(self), hash(other); a foreign object has a hash of its own
Hash ==
  /\ hashed' = <<hash(self), IF IsRichImg(other) THEN hash(other) ELSE <<other>>>>
  /\ ret' = Returned("__hash__", "int")
  /\ UNCHANGED <<self, capture, osState, spawned, prompts, logs, cairo, other,
                 pc, exportLocals>>

\* self._hash_no_fn(), other._hash_no_fn()
HashNoFn ==
  /\ hashed' = <<hash_no_fn(self), IF IsRichImg(other) THEN hash_no_fn(other) ELSE <<other>>>>
  /\ ret' = Returned("_hash_no_fn", "int")
  /\ UNCHANGED <<self, capture, osState, spawned, prompts, logs, cairo, other,
                 pc, exportLocals>>

\* the jobs compared: a command job, a rejected one, a snippet job
EqJobs ==
  CommandJobs({<<"l", "s">>, <<SP, "r", "m">>}, Titles, {FALSE}, FewPathLists)
    \cup SnippetJobs({"{\"a\": 1}"}, {"json"}, FewPathLists)

\* every configuration of a second job, and a foreign object
Others ==
  { o \in [ terminal_width : {"None", "80"},
            terminal_theme : {"None", "dark"},
            title : {<<>>, <<"l", "s">>},
            cmd : {NoneStr, <<"l", "s">>, <<"r", "m">>},
            snippet : {"None", "{\"a\": 1}"},
            snippet_syntax : {"None", "json"},
            img_paths : FewPathLists \cup {<<Path(CWD, "b", "svg")>>},
            no_confirm : BOOLEAN,
            aborted : BOOLEAN ] :
      o.cmd = NoneStr \/ o.snippet = "None" }
    \cup {NotAJob}

InitEq == InitWith(EqJobs, {"ok"}, Others)

NextEq ==
  \/ Eq
  \/ Hash
  \/ HashNoFn
  \/ PipeCommand
  \/ FormatSnippet

Next ==
  \/ ConfirmCommand
  \/ PipeCommand
  \/ FormatSnippet
  \/ GetOutput
  \/ SaveImages
  \/ SaveIteration
  \/ SaveReturn

Spec == Init /\ [][Next]_vars

SpecGuard == InitGuard /\ [][Next]_vars

SpecEq == InitEq /\ [][NextEq]_vars

\* ------------------------------------------------------------------------
\* The command guard: what is stated of it
\* ------------------------------------------------------------------------
Denylist == Range(IGNORE_COMMANDS)

\* sequencing and pipe separators of the shell
Separators == {";", "&", "|"}

\* the command cut at every separator character
RECURSIVE Segments(_)
Segments(s) ==
  LET hits == {i \in 1..Len(s) : s[i] \in Separators}
  IN IF hits = {}
       THEN <<s>>
       ELSE LET i == CHOOSE k \in hits : \A j \in hits : k <= j
            IN <<SubSeq(s, 1, i - 1)>> \o Segments(SubSeq(s, i + 1, Len(s)))

StartsDenylisted(seg) == \E name \in Denylist : startswith(strip(seg), name)

\* the first word of a segment
CommandName(seg) ==
  LET t == strip(seg)
      ws == {i \in 1..Len(t) : IsWhitespace(t[i])}
  IN IF ws = {} THEN t ELSE SubSeq(t, 1, (CHOOSE k \in ws : \A j \in ws : k <= j) - 1)

\* this step is a call of pipe_command, directly or through get_output, on a
\* job with a command
PipeStep ==
  /\ pc \in {"new", "asked"}
  /\ pc' = "captured"
  /\ ret'.call \in {"pipe_command", "get_output"}
  /\ self.cmd # NoneStr

\* the step rejected the command and ran nothing
StepRejected ==
  /\ self'.aborted
  /\ ret'.value = (IF ret'.call = "pipe_command" THEN "False" ELSE "None")
  /\ UNCHANGED <<files, fds, ntmp, spawned, capture>>

\* the step let the command through and ran it
StepExecuted ==
  /\ ~self'.aborted
  /\ Len(spawned') = Len(spawned) + 1
  /\ spawned'[Len(spawned')].cmd = strip(self.cmd)

\* C1: a command whose first segment, trimmed, starts with a denylisted name
\* is rejected by pipe_command: aborted becomes true, no temporary file is
\* created and no child process is spawned in that call.
C1_FirstSegmentRejected ==
  [][(PipeStep /\ StartsDenylisted(Head(Segments(self.cmd)))) => StepRejected]_vars

C1_Witness ==
  /\ ret.call = "pipe_command"
  /\ self.aborted
  /\ StartsDenylisted(Head(Segments(self.cmd)))
  /\ spawned = <<>>
  /\ ntmp = 0

\* C2: if any segment of the command (cut at sequencing / pipe separators),
\* trimmed, starts with a denylisted name, the command is never executed.
C2_AnySegmentRejected ==
  \A i \in DOMAIN spawned :
    \A seg \in Range(Segments(spawned[i].cmd)) : ~StartsDenylisted(seg)

\* C3 as stated: a command none of whose segments has a denylisted command
\* name, with confirmation suppressed, is allowed: no prompt, aborted stays
\* false, the command is executed.
C3_NameNotDenylistedAllowed ==
  [][(/\ PipeStep
      /\ self.no_confirm
      /\ \A seg \in Range(Segments(self.cmd)) : CommandName(seg) \notin Denylist)
     => (StepExecuted /\ prompts' = prompts)]_vars

\* C3 amended: a command none of whose segments, trimmed, starts with a
\* denylisted name (a prefix match: rmdir counts as denylisted), with
\* confirmation suppressed, is allowed: no prompt, aborted stays false, the
\* command is executed.
C3_NoPrefixAllowed ==
  [][(/\ PipeStep
      /\ self.no_confirm
      /\ \A seg \in Range(Segments(self.cmd)) : ~StartsDenylisted(seg))
     => (StepExecuted /\ prompts' = prompts)]_vars

C3_Witness ==
  /\ ret.call = "pipe_command"
  /\ self.no_confirm
  /\ ~self.aborted
  /\ prompts = <<>>
  /\ Len(spawned) = 1
  /\ Len(Segments(spawned[1].cmd)) > 1
  /\ \A seg \in Range(Segments(spawned[1].cmd)) : ~StartsDenylisted(seg)

\* C4: a command job with no_confirm false is executed only after the user
\* was prompted and answered yes; after a negative answer the job is aborted,
\* nothing is executed and nothing is exported.
C4_ConfirmedBeforeRun ==
  /\ (~self.no_confirm /\ spawned # <<>>)
       => \E i \in DOMAIN prompts : prompts[i].answer
  /\ (\E i \in DOMAIN prompts : ~prompts[i].answer)
       => (/\ spawned = <<>>
           /\ capture = <<>>
           /\ trace = <<>>
           /\ pc # "asked" => self.aborted)

\* C5: once aborted is set, save_images is a no-op: it returns at once,
\* creates no directory and no temporary file, renders nothing and writes no
\* file.
C5_AbortedExportNoOp ==
  [][(/\ self.aborted
      /\ pc \in {"new", "asked", "captured"}
      /\ pc' \notin {"new", "asked", "captured"})
     => (/\ pc' = "done"
         /\ ret' = Returned("save_images", "None")
         /\ UNCHANGED <<files, dirs, fds, ntmp, trace, capture>>)]_vars

C5_Witness ==
  /\ self.aborted
  /\ pc = "done"
  /\ ret.call = "save_images"
  /\ Len(self.img_paths) > 0
  /\ files = {}

\* ------------------------------------------------------------------------
\* The image exporter: what is stated of it
\* ------------------------------------------------------------------------
\* the call of save_images went into its loop and has ended, by a return or
\* by an exception
ExportEnded ==
  /\ pc \in {"done", "raised"}
  /\ ret.call = "save_images"
  /\ ret.value \in {"int", "raised"}

\* the call of save_images went through the whole loop and returned
ExportReturned == pc = "done" /\ ret.call = "save_images" /\ ret.value = "int"

\* the format a path asks for
Format(p) == lower(p.ext)

\* the artifact of a tier for this job: the SVG of the capture console, or
\* its rasterization
Artifact(tier) == Rasterize(SvgOf(self.title, capture), tier)

EventsOf(op) == {k \in DOMAIN trace : trace[k].op = op}

Requested(fmt) == {i \in DOMAIN self.img_paths : Format(self.img_paths[i]) = fmt}

\* C6: with the rasterizer available, every path of img_paths holds the
\* artifact of the tier its extension asks for (a .png the PNG, a .pdf the PDF,
\* a .svg the SVG), and the SVG is copied only to .svg paths.
C6_TierMatchesExtension ==
  (ExportReturned /\ cairo = "ok")
    => /\ \A i \in DOMAIN self.img_paths :
            /\ Exists(files, self.img_paths[i])
            /\ ReadFile(files, self.img_paths[i]) = Artifact(Format(self.img_paths[i]))
       /\ \A k \in EventsOf("copyfile") :
            trace[k].src = svg_img => Format(trace[k].dst) = "svg"

\* C7: with the rasterizer available, one export renders the SVG, rasterizes
\* the PNG and rasterizes the PDF at most once each, and any two paths that ask
\* for the same format end up as files with the same bytes.
C7_OncePerTierOthersCopies ==
  (ExportEnded /\ cairo = "ok")
    => /\ \A op \in {"save_svg", "svg2png", "svg2pdf"} : Cardinality(EventsOf(op)) <= 1
       /\ \A fmt \in {"svg", "png", "pdf"} :
            \A i, j \in Requested(fmt) :
              /\ Exists(files, self.img_paths[i])
              /\ Exists(files, self.img_paths[j])
              /\ ReadFile(files, self.img_paths[i]) = ReadFile(files, self.img_paths[j])

\* C8: when img_paths has both a .svg and a .png entry, every PNG conversion
\* reads an SVG file that was rendered earlier in the export and exists, as an
\* SVG document, at the moment the conversion begins.
C8_SvgBeforePng ==
  (Requested("svg") # {} /\ Requested("png") # {})
    => \A k \in EventsOf("svg2png") :
         /\ trace[k].ok
         /\ \E j \in EventsOf("save_svg") : j < k /\ trace[j].dst = trace[k].src
         /\ \A j \in EventsOf("unlink") : trace[j].dst = trace[k].src => j > k

C8_Witness ==
  /\ Requested("svg") # {}
  /\ Requested("png") # {}
  /\ EventsOf("svg2png") # {}
  /\ \E p \in Range(self.img_paths) :
       /\ Format(p) = "png"
       /\ Exists(files, p)
       /\ ReadFile(files, p) = Artifact("png")

ErrorsLogged == {k \in DOMAIN logs : logs[k].level = "error"}

NoDuplicates(paths) == \A i, j \in DOMAIN paths : paths[i] = paths[j] => i = j

\* C9: with the rasterizer unavailable, export over pairwise distinct paths
\* returns without raising, no .png / .pdf path is written and an error is
\* logged for each, and every .svg path holds the SVG.
C9_NoRasterizerSkipsOnlyRaster ==
  (ExportEnded /\ cairo # "ok" /\ NoDuplicates(self.img_paths))
    => /\ ret.value = "int"
       /\ \A i \in Requested("png") \cup Requested("pdf") :
            ~Exists(files, self.img_paths[i])
       /\ Cardinality(ErrorsLogged) = Cardinality(Requested("png") \cup Requested("pdf"))
       /\ \A i \in Requested("svg") :
            /\ Exists(files, self.img_paths[i])
            /\ ReadFile(files, self.img_paths[i]) = Artifact("svg")

\* C10: when save_images has ended, every temporary SVG file it created has
\* been deleted, whether the conversion ran or the path was skipped.
C10_TempSvgDeleted ==
  ExportEnded => \A k \in EventsOf("mkstemp") : ~Exists(files, trace[k].dst)

\* the files export has written at paths of img_paths that ask for SVG
SvgWritten ==
  {trace[k].dst : k \in {j \in EventsOf("save_svg") \cup EventsOf("copyfile") :
                           /\ trace[j].ok
                           /\ trace[j].src # trace[j].dst
                           /\ trace[j].dst \in Range(self.img_paths)
                           /\ Format(trace[j].dst) = "svg"}}

\* C11: export never deletes a requested .svg path: every unlink of export
\* removes a temporary file that export created itself, and every requested
\* .svg file that export wrote still exists.
C11_RequestedSvgKept ==
  /\ \A k \in EventsOf("unlink") :
       /\ trace[k].dst \notin Range(self.img_paths)
       /\ \E j \in EventsOf("mkstemp") : j < k /\ trace[j].dst = trace[k].dst
  /\ \A p \in SvgWritten : Exists(files, p)

C11_Witness ==
  /\ ExportReturned
  /\ Len(self.img_paths) >= 2
  /\ SvgWritten # {}
  /\ \A p \in SvgWritten : ReadFile(files, p) = Artifact("svg")

\* this step is the call of save_images, up to its loop
SaveStep ==
  /\ pc \in {"new", "asked", "captured"}
  /\ pc' \in {"saving", "done", "raised"}

\* C12: for a job that is not aborted and has no output paths, save_images
\* returns 0, logs a warning and touches no file, directory or temp file.
C12_EmptyPathsReturnsZero ==
  [][(SaveStep /\ ~self.aborted /\ Len(self.img_paths) = 0)
     => (/\ pc' = "done"
         /\ ret' = ReturnedInt("save_images", 0)
         /\ Len(logs') = Len(logs) + 1
         /\ logs'[Len(logs')].level = "warning"
         /\ UNCHANGED <<files, dirs, fds, ntmp, trace>>)]_vars

\* C13: when save_images on a job that is not aborted and has output paths
\* runs to its end, it returns the number of paths in img_paths, whatever
\* was skipped or copied.
C13_ReturnsPathCount ==
  ExportReturned => ret.n = Len(self.img_paths)

C13_Witness ==
  /\ ExportReturned
  /\ ret.n = Len(self.img_paths)
  /\ \E i \in DOMAIN self.img_paths : ~Exists(files, self.img_paths[i])
  /\ \E k \in EventsOf("copyfile") : trace[k].ok

\* ------------------------------------------------------------------------
\* The command capturer and the dispatcher: what is stated of them
\* ------------------------------------------------------------------------
\* the call of pipe_command (direct or through get_output) on a command has
\* ended
CaptureEnded ==
  /\ pc = "captured"
  /\ ret.call \in {"pipe_command", "get_output"}
  /\ self.cmd # NoneStr

\* C14: when pipe_command has ended, by a return or by an exception, the
\* temporary file it created is gone and no descriptor it opened is open.
C14_TempReleased ==
  CaptureEnded => /\ \A e \in files : e.path.dir # TMPDIR
                  /\ fds = {}

\* C15: when the output of the command does not decode, pipe_command logs
\* the error, raises nothing and leaves the capture console empty.
C15_DecodeErrorAbsorbed ==
  (CaptureEnded /\ \E e \in files : e.content = RawOutput(Undecodable))
    => /\ ret.value # "raised"
       /\ capture = <<>>
       /\ \E k \in DOMAIN logs : logs[k].level = "error"

\* C16: get_output with a command runs the guard and the capturer and not
\* the formatter; with a snippet only it runs the formatter, which writes
\* into the capture console and spawns nothing; with neither it only logs.
C16_GetOutputDispatch ==
  [][(pc \in {"new", "asked"} /\ pc' = "captured" /\ ret'.call = "get_output")
     => /\ (self.cmd # NoneStr)
             => (self'.aborted \/ Len(spawned') = Len(spawned) + 1)
        /\ (self.cmd = NoneStr /\ self.snippet # "None")
             => (/\ capture' # capture
                 /\ ret'.value # "raised"
                 /\ UNCHANGED <<self, spawned, files, ntmp>>)
        /\ (self.cmd = NoneStr /\ self.snippet = "None")
             => (/\ ret'.value # "raised"
                 /\ UNCHANGED <<self, capture, spawned, files, ntmp>>)]_vars

\* C20: whenever export copies from, or rasterizes, a file it has recorded in
\* svg_img, png_img or pdf_img, that file exists at that moment.
C20_CachedSourceExists ==
  \A k \in EventsOf("copyfile") \cup EventsOf("svg2png") \cup EventsOf("svg2pdf") :
    trace[k].ok

\* this step is a call of pipe_command that ended in a rejection
RejectStep == PipeStep /\ self'.aborted

\* C18 as stated: a rejection changes no attribute of the job but aborted,
\* leaves the capture console as it was and executes nothing.
C18_RejectOnlySetsAborted ==
  [][RejectStep
     => (/\ self' = [self EXCEPT !.aborted = TRUE]
         /\ UNCHANGED <<capture, files, dirs, fds, ntmp, spawned>>)]_vars

\* C18 amended: a rejection sets aborted and replaces the command text by
\* its stripped form (leading and trailing whitespace removed); every other
\* attribute and the capture console are as they were, nothing is executed.
C18_RejectSetsAbortedStripsCmd ==
  [][RejectStep
     => (/\ self' = [self EXCEPT !.aborted = TRUE, !.cmd = strip(self.cmd)]
         /\ UNCHANGED <<capture, files, dirs, fds, ntmp, spawned>>)]_vars

C18_Witness ==
  /\ pc = "captured"
  /\ ret.call \in {"pipe_command", "get_output"}
  /\ self.aborted
  /\ self.title = <<>>
  /\ \E i \in DOMAIN self.cmd : IsWhitespace(self.cmd[i])
  /\ capture = <<>>
  /\ spawned = <<>>
  /\ files = {}

\* ------------------------------------------------------------------------
\* Identity of a job
\* ------------------------------------------------------------------------
\* the seven attributes named as the identity agree
IdentityAgrees(a, b) ==
  /\ a.terminal_width = b.terminal_width
  /\ a.terminal_theme = b.terminal_theme
  /\ a.title = b.title
  /\ a.cmd = b.cmd
  /\ a.snippet = b.snippet
  /\ a.snippet_syntax = b.snippet_syntax
  /\ a.img_paths = b.img_paths

\* C17: two jobs are equal exactly when terminal width, theme, title, command,
\* snippet, snippet syntax and output paths all agree (the confirmation flag,
\* the aborted flag and the capture play no part), and equal jobs have equal
\* hashes.
C17_EqualityIsIdentity ==
  IsRichImg(other) =>
    /\ ret.call = "__eq__" =>
         (ret.value = "True" <=> IdentityAgrees(self, other))
    /\ (ret.call = "__hash__" /\ eq(self, other) = "True") =>
         hashed[1] = hashed[2]

\* two jobs found equal although the flags differ and one has a capture
C17_Witness ==
  /\ ret.call = "__eq__"
  /\ ret.value = "True"
  /\ self.aborted # other.aborted
  /\ self.no_confirm # other.no_confirm
  /\ pc = "captured"

\* a step of save_images: its entry, one turn of its loop, or its return
ExportStep == pc' \in {"saving", "done", "raised"}

\* C19: no step of save_images changes an attribute of the job (terminal
\* width, theme, title, command, snippet, snippet syntax, output paths,
\* confirmation flag, aborted flag), so the job after the export equals the
\* job before it and has the same hash.
C19_ExportKeepsJob ==
  [][ExportStep => (/\ self' = self
                    /\ eq(self', self) = "True"
                    /\ hash(self') = hash(self)
                    /\ hash_no_fn(self') = hash_no_fn(self))]_vars

\* an export of a command job to several paths that wrote files and returned
C19_Witness ==
  /\ ExportReturned
  /\ self.cmd # NoneStr
  /\ Len(self.img_paths) >= 2
  /\ EventsOf("save_svg") # {}
  /\ files # {}

================================================================
